---- MODULE Spec2Model ----
(***************************************************************************)
(* Batch execution and result aggregation of gram (modeling-redundancy).   *)
(*                                                                         *)
(* The model covers gram/execution/batch.py (Batch), gram/sweep/sweep.py   *)
(* (Sweep) and the part of gram/simulation/environment.py (Condition-      *)
(* Simulation) that Batch and Sweep call.  The disk is modelled as a set   *)
(* of directories and maps from absolute file paths to contents; a         *)
(* path is a record [abs, comps] that is resolved against the working      *)
(* directory of the session when it is relative, as the os does.           *)
(*                                                                         *)
(* batch.py:103-104 (build_submission_script) does not parse as Python: a  *)
(* parenthesis is left open.  The model takes the statements of the other  *)
(* methods as they are written; build never reaches the script writer,     *)
(* because build_path_files raises first.                                  *)
(*                                                                         *)
(* Specifications: Spec, SpecIter and SpecSweep follow sessions in which   *)
(* build is called once, on the freshly constructed object, a session      *)
(* loads only a directory that holds a batch.pkl, every stored simulation  *)
(* is run by one batch job and simulations are saved without trajectories. *)
(* SpecFiles runs the loop that writes the chunk files, SpecNested two     *)
(* interleaved loops over one batch, SpecRebuild further build calls,      *)
(* SpecDamaged aggregate over a batch that lost a simulation, SpecStore    *)
(* save and load of one simulation with its trajectories, SpecParse and    *)
(* SpecParseAt parse_simulation alone.                                     *)
(*                                                                         *)
(* Python indices are kept 0-based: parameters, simulation_paths and       *)
(* completed are functions over 0..N-1.  TLA+ sequences (1-based) are used *)
(* for Python lists whose positions are only counted (rows of results,     *)
(* the simulations yielded by an iteration).                               *)
(***************************************************************************)
EXTENDS Integers, Sequences, FiniteSets, TLC

\* ------------------------------------------------------------------ bounds
\* largest number of sampled parameter sets (num_samples)
MaxN == 3
\* largest batch_size passed to build
MaxBatchSize == 2
\* number of thresholds of a MultiComparison (parse_simulation reads
\* position -3, so the vectors it is used with have at least 3 entries)
NumThresholds == 3

VARIABLES
    cwd,        \* working directory of the session (absolute components)
    dirs,       \* disk: the directories that exist
    pickles,    \* disk: batch.pkl files, path -> pickled Batch __dict__
    simfiles,   \* disk: simulation.pkl files, path -> pickled simulation
    textfiles,  \* disk: text files (chunk files, index.txt), path -> lines
    stores,     \* disk: trajectory stores, directory -> the TimeSeries in it
    batch,      \* the Batch/Sweep object of the session (its __dict__)
    held,       \* simulations the caller received from the batch, by index
    iter,       \* the caller's for-loop over the batch
    inner,      \* a second for-loop over the batch, begun inside the first
    last,       \* the last call: operation, argument, result, exception
    psim,       \* the simulation handed to parse_simulation on its own
    parsed      \* what parse_simulation returned for psim

vars == <<cwd, dirs, pickles, simfiles, textfiles, stores, batch, held, iter,
          inner, last, psim, parsed>>

disk == <<dirs, pickles, simfiles, textfiles>>

\* ------------------------------------------------------------------ paths
\* os.path.join(a, b)
join(a, b) ==
    IF b.abs THEN b ELSE [abs |-> a.abs, comps |-> a.comps \o b.comps]

\* a relative path of the given components
Rel(comps) == [abs |-> FALSE, comps |-> comps]

\* the absolute location a path names for the running session
Resolve(wd, p) == IF p.abs THEN p.comps ELSE wd \o p.comps

\* os.path.relpath(p, start), for p below start
relpath(wd, p, start) ==
    LET rp == Resolve(wd, p)
        rs == Resolve(wd, start)
    IN  Rel(SubSeq(rp, Len(rs) + 1, Len(rp)))

\* os.path.isdir
isdir(ds, wd, p) == Resolve(wd, p) \in ds

\* the directory the sessions start in, and the destinations build is given
Work == <<"work">>

Directories == {Rel(<<>>), [abs |-> TRUE, comps |-> Work]}

\* the attribute path before build assigns it
NoPath == Rel(<<"<no attribute>">>)

EmptyFn == [x \in {} |-> 0]

\* ------------------------------------------------------------ simulations
Conditions == {"normal", "diabetic"}

Metrics == {"above", "below", "error",
            "above_threshold", "below_threshold", "threshold_error"}

NoComparisons == [present |-> FALSE, items |-> EmptyFn]

\* the k-th vector of the sampler
ParamSet(k) == 100 + k

\* SimpleSweep.build_model
build_model(parameters) == [cls |-> "SimpleModel", parameters |-> parameters]

\* dynamics before simulate (None), and the attribute missing altogether
NoDynamics == [present |-> FALSE, items |-> EmptyFn]

NoSuchAttribute == [present |-> FALSE, items |-> <<"<no attribute>">>]

\* ConditionSimulation(model, **kwargs)
ConditionSimulation(model, kw) ==
    [model |-> model, kw |-> kw, conditions |-> <<>>,
     dynamics |-> NoDynamics, comparisons |-> NoComparisons,
     saveall |-> FALSE]

\* what pickle stores for a simulation: save sets saveall, __getstate__
\* leaves the trajectories out, so the unpickled object has no dynamics
SimState(simulation, saveall) ==
    [simulation EXCEPT !.saveall = saveall, !.dynamics = NoSuchAttribute]

SimFile(wd, simulation_path) ==
    Resolve(wd, join(simulation_path, Rel(<<"simulation.pkl">>)))

\* ConditionSimulation.load(path): the unpickled object, or the exception
ConditionSimulation_load(files, wd, path) ==
    IF SimFile(wd, path) \in DOMAIN files
    THEN [err |-> "none", sim |-> files[SimFile(wd, path)]]
    ELSE [err |-> "FileNotFoundError", sim |-> ConditionSimulation(build_model(0), "")]

\* ------------------------------------------------------------------ Batch
NoAttribute == "<no attribute>"

\* Sweep.results before aggregate (None) and Sweep.completed before it
NoResults == [present |-> FALSE, columns |-> {}, rows |-> <<>>]

NoCompleted == [present |-> FALSE, values |-> EmptyFn]

\* Sweep.__init__ / Batch.__init__ over num_samples sampled parameter sets
NewBatch(num_samples) ==
    [parameters |-> [i \in 0..(num_samples - 1) |-> ParamSet(i)],
     simulation_paths |-> EmptyFn,
     path |-> NoPath,
     sim_kw |-> NoAttribute,
     batch_size |-> 0,
     count |-> -1,
     results |-> NoResults,
     completed |-> NoCompleted]

\* Batch.N
N(b) == Cardinality(DOMAIN b.parameters)

\* len(self.simulation_paths)
NumPaths(b) == Cardinality(DOMAIN b.simulation_paths)

\* '<class name>_<timestamp>' of make_directory, at the time of the first
\* build and one second later
BatchName == "SimpleSweep_181012_101500"

LaterName == "SimpleSweep_181012_101501"

\* the value of the last call when nothing was returned
NoCall == [op |-> "none", arg |-> 0, err |-> "none", ret |-> 0]

Call(op, arg, err, ret) == [op |-> op, arg |-> arg, err |-> err, ret |-> ret]

\* the directories made the way os.makedirs(exist_ok=True) makes them
mkdirs_exist_ok(ds, todo) ==
    [dirs |-> ds \cup {todo[k] : k \in DOMAIN todo}, err |-> "none"]

\* os.mkdir of the listed directories in turn; the first that exists raises
RECURSIVE mkdirs(_, _)
mkdirs(ds, todo) ==
    IF todo = <<>> THEN [dirs |-> ds, err |-> "none"]
    ELSE IF Head(todo) \in ds THEN [dirs |-> ds, err |-> "FileExistsError"]
    ELSE mkdirs(ds \cup {Head(todo)}, Tail(todo))

\* Batch.make_directory, name being the name the clock gives: the batch with
\* its path, the directories, the error
make_directory(b, ds, wd, directory, name) ==
    LET path == join(directory, Rel(<<name>>))
        ds1 == IF isdir(ds, wd, path) THEN ds ELSE ds \cup {Resolve(wd, path)}
        made == mkdirs(ds1, <<Resolve(wd, join(path, Rel(<<"scripts">>))),
                              Resolve(wd, join(path, Rel(<<"simulations">>))),
                              Resolve(wd, join(path, Rel(<<"batches">>)))>>)
    IN  [batch |-> [b EXCEPT !.path = path], dirs |-> made.dirs,
         err |-> made.err]

\* Batch.build_simulation; raises when build_model does (fault)
build_simulation(st, wd, parameters, simulation_path, kw, fault) ==
    IF fault THEN [st EXCEPT !.err = "ValueError"]
    ELSE LET simulation == ConditionSimulation(build_model(parameters), kw)
         IN  [st EXCEPT
                !.dirs = IF isdir(st.dirs, wd, simulation_path) THEN @
                         ELSE @ \cup {Resolve(wd, simulation_path)},
                !.simfiles = [f \in DOMAIN @ \cup {SimFile(wd, simulation_path)} |->
                                IF f = SimFile(wd, simulation_path)
                                THEN SimState(simulation, FALSE) ELSE @[f]]]

\* the loop of build over enumerate(self.parameters), from index i on
RECURSIVE build_simulations(_, _, _, _, _)
build_simulations(i, st, wd, kw, fault) ==
    IF i \notin DOMAIN st.batch.parameters \/ st.err # "none" THEN st
    ELSE LET simulation_path ==
                 join(st.batch.path, Rel(<<"simulations", ToString(i)>>))
             recorded ==
                 [st EXCEPT !.batch.simulation_paths =
                     [k \in DOMAIN @ \cup {i} |->
                         IF k = i THEN relpath(wd, simulation_path, st.batch.path)
                         ELSE @[k]]]
         IN  build_simulations(i + 1,
                 build_simulation(recorded, wd, st.batch.parameters[i],
                                  simulation_path, kw, fault = i),
                 wd, kw, fault)

\* the loop of build_path_files over simulation_paths.items(), from index i;
\* st holds the text files, the chunk files still open, the chunk file at
\* hand and whether batches_index was opened for writing
RECURSIVE write_path_files(_, _, _, _, _)
write_path_files(i, b, wd, batch_size, st) ==
    IF i \notin DOMAIN b.simulation_paths \/ st.err # "none" THEN st
    ELSE LET batch_id == i \div batch_size
             batch_dir == join(join(b.path, Rel(<<"batches">>)),
                               Rel(<<ToString(batch_id) \o ".txt">>))
             opens == i % batch_size = 0
             file == IF opens THEN Resolve(wd, batch_dir) ELSE st.batch_file
             s1 == IF opens
                   THEN [st EXCEPT
                           !.batch_file = file,
                           !.open = @ \cup {file},
                           !.textfiles = [f \in DOMAIN @ \cup {file} |->
                                            IF f = file THEN <<>> ELSE @[f]]]
                   ELSE st
             s2 == IF ~opens THEN s1
                   ELSE IF ~st.index_writable
                   THEN [s1 EXCEPT !.err = "UnsupportedOperation"]
                   ELSE [s1 EXCEPT !.textfiles[st.index_file] =
                                       Append(@, batch_dir)]
             s3 == IF s2.err # "none" THEN s2
                   ELSE [s2 EXCEPT !.textfiles[file] =
                                       Append(@, b.simulation_paths[i])]
             s4 == IF s3.err = "none" /\ i % batch_size = batch_size - 1
                   THEN [s3 EXCEPT !.open = @ \ {file}]
                   ELSE s3
         IN  write_path_files(i + 1, b, wd, batch_size, s4)

\* Batch.build_path_files: open(join(batches_dir, 'index.txt', 'w')) names
\* the path batches/index.txt/w and opens it for reading
build_path_files(b, tf, wd, batch_size) ==
    LET batches_dir == join(b.path, Rel(<<"batches">>))
        index_file == Resolve(wd, join(batches_dir, Rel(<<"index.txt", "w">>)))
        st0 == [textfiles |-> tf, open |-> {}, batch_file |-> <<>>,
                index_file |-> index_file, index_writable |-> FALSE,
                err |-> "none"]
    IN  IF index_file \notin DOMAIN tf
        THEN [st0 EXCEPT !.err = "FileNotFoundError"]
        ELSE write_path_files(0, b, wd, batch_size, st0)

\* Batch.build_submission_script: the name batch_path it formats into the
\* script is not defined
build_submission_script == "NameError"

\* build with the batch object serialized before the simulations are built
build_pickle_first(b, d, wd, directory, batch_size, sim_kw, fault, name) ==
    LET made == make_directory(b, d[1], wd, directory, name)
        st0 == [batch |-> [made.batch EXCEPT !.sim_kw = sim_kw,
                                             !.batch_size = batch_size],
                dirs |-> made.dirs, pickles |-> d[2], simfiles |-> d[3],
                textfiles |-> d[4], open |-> {}, err |-> "none"]
        st1 == build_simulations(0, st0, wd, sim_kw, fault)
        pkl == Resolve(wd, join(st1.batch.path, Rel(<<"batch.pkl">>)))
        st2 == [st1 EXCEPT !.pickles =
                   [f \in DOMAIN @ \cup {pkl} |->
                       IF f = pkl THEN st0.batch ELSE @[f]]]
        files == build_path_files(st2.batch, st2.textfiles, wd, batch_size)
    IN  IF made.err # "none"
        THEN [st0 EXCEPT !.batch = made.batch, !.err = made.err]
        ELSE IF st1.err # "none" THEN st1
        ELSE [st2 EXCEPT !.textfiles = files.textfiles, !.open = files.open,
                         !.err = IF files.err = "none"
                                 THEN build_submission_script
                                 ELSE files.err]

\* Batch.build up to the exception that ends it, or to its return
build(b, d, wd, directory, batch_size, sim_kw, fault, name) ==
    LET made == make_directory(b, d[1], wd, directory, name)
        st0 == [batch |-> [made.batch EXCEPT !.sim_kw = sim_kw,
                                             !.batch_size = batch_size],
                dirs |-> made.dirs, pickles |-> d[2], simfiles |-> d[3],
                textfiles |-> d[4], open |-> {}, err |-> "none"]
        st1 == build_simulations(0, st0, wd, sim_kw, fault)
        pkl == Resolve(wd, join(st1.batch.path, Rel(<<"batch.pkl">>)))
        st2 == [st1 EXCEPT !.pickles =
                   [f \in DOMAIN @ \cup {pkl} |->
                       IF f = pkl THEN st1.batch ELSE @[f]]]
        files == build_path_files(st2.batch, st2.textfiles, wd, batch_size)
    IN  IF made.err # "none"
        THEN [st0 EXCEPT !.batch = made.batch, !.err = made.err]
        ELSE IF st1.err # "none" THEN st1
        ELSE [st2 EXCEPT !.textfiles = files.textfiles, !.open = files.open,
                         !.err = IF files.err = "none"
                                 THEN build_submission_script
                                 ELSE files.err]

SimKws == {"pulse_a"}

\* load_simulation handing back the object the caller already holds
load_simulation_cached(b, files, wd, index) ==
    IF b.path = NoPath
    THEN [err |-> "AttributeError", sim |-> ConditionSimulation(build_model(0), "")]
    ELSE IF index \notin DOMAIN b.simulation_paths
    THEN [err |-> "KeyError", sim |-> ConditionSimulation(build_model(0), "")]
    ELSE IF index \in DOMAIN held THEN [err |-> "none", sim |-> held[index]]
    ELSE ConditionSimulation_load(files, wd,
                                  join(b.path, b.simulation_paths[index]))

\* load_simulation over a list of paths instead of a dict
load_simulation_list(b, files, wd, index) ==
    LET pos == IF index < 0 THEN NumPaths(b) + index ELSE index
    IN  IF b.path = NoPath
        THEN [err |-> "AttributeError", sim |-> ConditionSimulation(build_model(0), "")]
        ELSE IF pos \notin DOMAIN b.simulation_paths
        THEN [err |-> "IndexError", sim |-> ConditionSimulation(build_model(0), "")]
        ELSE ConditionSimulation_load(files, wd,
                                      join(b.path, b.simulation_paths[pos]))

\* Batch.load_simulation(index): the loaded simulation or the exception
load_simulation(b, files, wd, index) ==
    IF b.path = NoPath
    THEN [err |-> "AttributeError", sim |-> ConditionSimulation(build_model(0), "")]
    ELSE IF index \notin DOMAIN b.simulation_paths
    THEN [err |-> "KeyError", sim |-> ConditionSimulation(build_model(0), "")]
    ELSE ConditionSimulation_load(files, wd,
                                  join(b.path, b.simulation_paths[index]))

\* Batch.__getitem__
getitem(b, files, wd, index) == load_simulation(b, files, wd, index)

\* the functions the callers hand to apply
Funcs == {"model", "compared"}

CallFunc(func, simulation) ==
    IF func = "model" THEN <<simulation.model.parameters>>
    ELSE <<simulation.comparisons.present>>

\* smallest member of a non-empty set of integers
Min(S) == CHOOSE x \in S : \A y \in S : x <= y

\* Batch.apply(func): {i: func(ConditionSimulation.load(p))} over
\* simulation_paths.items(); the first load that fails ends the call
apply(b, files, wd, func) ==
    LET loads == [i \in DOMAIN b.simulation_paths |->
                     ConditionSimulation_load(files, wd, b.simulation_paths[i])]
        failing == {i \in DOMAIN loads : loads[i].err # "none"}
    IN  IF failing # {}
        THEN [err |-> loads[Min(failing)].err, ret |-> EmptyFn]
        ELSE [err |-> "none",
              ret |-> [i \in DOMAIN loads |-> CallFunc(func, loads[i].sim)]]

\* Batch.load trusting the path the pickled object recorded
load_pickled_path(pkls, wd, path) ==
    pkls[Resolve(wd, join(path, Rel(<<"batch.pkl">>)))]

\* Batch.load(path): the unpickled object with the path used for loading
load(pkls, wd, path) ==
    [pkls[Resolve(wd, join(path, Rel(<<"batch.pkl">>)))] EXCEPT !.path = path]

\* ------------------------------------------------------------ comparisons
Thresholds == 1..NumThresholds

\* values of metrics: a scalar, a vector with one entry per threshold, the
\* missing-value marker None, and the NaN pandas puts in an absent cell
Scalar(a) == [kind |-> "scalar", v |-> <<a>>]

Vector(as) == [kind |-> "vector", v |-> as]

None == [kind |-> "None", v |-> <<>>]

NaN == [kind |-> "NaN", v |-> <<>>]

\* the value a comparison of the given model computed for a metric
MetricValue(cls, model, c, m) ==
    IF cls = "MultiComparison"
    THEN Vector([t \in Thresholds |-> <<model.parameters, c, m, t>>])
    ELSE Scalar(<<model.parameters, c, m, 0>>)

\* a comparison object; reached is reached_comparison, a vector with one
\* entry per threshold for a MultiComparison and one entry otherwise
Comparison(cls, model, c, reached) ==
    [cls |-> cls, reached_comparison |-> reached,
     above |-> MetricValue(cls, model, c, "above"),
     below |-> MetricValue(cls, model, c, "below"),
     error |-> MetricValue(cls, model, c, "error"),
     above_threshold |-> MetricValue(cls, model, c, "above_threshold"),
     below_threshold |-> MetricValue(cls, model, c, "below_threshold"),
     threshold_error |-> MetricValue(cls, model, c, "threshold_error")]

\* ConditionSimulation.compare(): one comparison per condition
compare(model, cls, reached) ==
    [present |-> TRUE,
     items |-> [c \in Conditions |-> Comparison(cls, model, c, reached[c])]]

\* the conditions simulate runs when it is given none, in its order
ConditionOrder == <<"normal", "diabetic">>

\* a trajectory set: the TimeSeries of the model under condition c, before
\* (control) or after (perturbation) the perturbation, of the given run
TimeSeries(model, c, which, run) == <<model.parameters, c, which, run>>

\* ConditionSimulation.simulate(conditions=conditions), inplace
simulate(simulation, conditions, run) ==
    [simulation EXCEPT
        !.conditions = conditions,
        !.dynamics =
            [present |-> TRUE,
             items |-> [c \in {conditions[k] : k \in DOMAIN conditions} |->
                          <<TimeSeries(simulation.model, c, "control", run),
                            TimeSeries(simulation.model, c, "perturbation", run)>>]]]

Booleans == {TRUE, FALSE}

ReachedVectors == [Thresholds -> Booleans]

\* every outcome of simulate and compare on one simulation
Outcomes ==
    [cls : {"Comparison"}, reached : [Conditions -> [{1} -> Booleans]]]
    \cup [cls : {"MultiComparison"}, reached : [Conditions -> ReachedVectors]]

\* the outcomes the batch jobs are run with
RunOutcomes ==
    {[cls |-> "Comparison", reached |-> [c \in Conditions |-> <<TRUE>>]],
     [cls |-> "Comparison",
      reached |-> [c \in Conditions |-> <<c = "normal">>]],
     [cls |-> "MultiComparison",
      reached |-> [c \in Conditions |->
                      [t \in Thresholds |-> c = "normal" /\ t = 2]]]}

\* the attribute of a comparison that holds metric m
Field(comparison, m) ==
    CASE m = "above" -> comparison.above
      [] m = "below" -> comparison.below
      [] m = "error" -> comparison.error
      [] m = "above_threshold" -> comparison.above_threshold
      [] m = "below_threshold" -> comparison.below_threshold
      [] m = "threshold_error" -> comparison.threshold_error

\* vector[index] of Python: negative positions count from the end
PyItem(value, index) ==
    LET pos == IF index < 0 THEN Len(value.v) + index + 1 ELSE index + 1
    IN  IF pos \in 1..Len(value.v) THEN Scalar(value.v[pos])
        ELSE [kind |-> "IndexError", v |-> <<>>]

\* the test counting a composite comparison as reached only when every
\* threshold was reached
Reached_all(comparison) ==
    IF comparison.cls = "MultiComparison"
    THEN \A t \in DOMAIN comparison.reached_comparison :
             comparison.reached_comparison[t]
    ELSE comparison.reached_comparison[1]

\* the test of parse_simulation on reached_comparison
Reached(comparison) ==
    IF comparison.cls = "MultiComparison"
    THEN \E t \in DOMAIN comparison.reached_comparison :
             comparison.reached_comparison[t]
    ELSE comparison.reached_comparison[1]

\* the record entry without the missing-value branch
Recorded_nofail(comparison, m, index) ==
    IF comparison.cls = "MultiComparison"
    THEN PyItem(Field(comparison, m), index)
    ELSE Field(comparison, m)

\* what parse_simulation records under (c, m)
Recorded(comparison, m, index) ==
    IF ~Reached(comparison) THEN None
    ELSE IF comparison.cls = "MultiComparison"
    THEN PyItem(Field(comparison, m), index)
    ELSE Field(comparison, m)

\* the false-sentinel
False == [ok |-> FALSE, err |-> "none", errors |-> EmptyFn]

\* parse_simulation giving up on a simulation with an unreached condition
parse_simulation_strict(simulation, index) ==
    IF ~simulation.comparisons.present THEN False
    ELSE LET items == simulation.comparisons.items
             errors == [k \in (DOMAIN items) \X Metrics |->
                           Recorded(items[k[1]], k[2], index)]
         IN  IF \E c \in DOMAIN items : ~Reached(items[c]) THEN False
             ELSE [ok |-> TRUE, err |-> "none", errors |-> errors]

\* Sweep.parse_simulation(simulation, index)
parse_simulation(simulation, index) ==
    IF ~simulation.comparisons.present THEN False
    ELSE LET items == simulation.comparisons.items
             errors == [k \in (DOMAIN items) \X Metrics |->
                           Recorded(items[k[1]], k[2], index)]
         IN  IF \E k \in DOMAIN errors : errors[k].kind = "IndexError"
             THEN [ok |-> TRUE, err |-> "IndexError", errors |-> EmptyFn]
             ELSE [ok |-> TRUE, err |-> "none", errors |-> errors]

DefaultIndex == -3

\* ---------------------------------------------------------------- iteration
\* Batch.__iter__
Batch_iter(b) == [b EXCEPT !.count = 0]

\* Batch.__next__: the next simulation, StopIteration, or the load's exception
Batch_next(b, files, wd) ==
    IF b.count < NumPaths(b)
    THEN LET r == load_simulation(b, files, wd, b.count)
         IN  IF r.err # "none" THEN [batch |-> b, err |-> r.err, sim |-> r.sim]
             ELSE [batch |-> [b EXCEPT !.count = @ + 1], err |-> "none",
                   sim |-> r.sim]
    ELSE [batch |-> b, err |-> "StopIteration",
          sim |-> ConditionSimulation(build_model(0), "")]

NoLoop == [state |-> "idle", yielded |-> <<>>, round |-> 0]

\* ---------------------------------------------------------------- aggregate
\* x != False
NotFalse(x) == x.ok

\* the comprehension collecting the records newest first
RECURSIVE parse_all_reversed(_, _, _, _)
parse_all_reversed(b, files, wd, acc) ==
    LET nx == Batch_next(b, files, wd)
        x == parse_simulation(nx.sim, DefaultIndex)
    IN  IF nx.err = "StopIteration"
        THEN [batch |-> nx.batch, results |-> acc, err |-> "none"]
        ELSE IF nx.err # "none"
        THEN [batch |-> nx.batch, results |-> acc, err |-> nx.err]
        ELSE IF x.err # "none"
        THEN [batch |-> nx.batch, results |-> acc, err |-> x.err]
        ELSE parse_all_reversed(nx.batch, files, wd, <<x>> \o acc)

\* the comprehension taking a simulation that does not load for one that
\* has not run
RECURSIVE parse_all_tolerant(_, _, _, _)
parse_all_tolerant(b, files, wd, acc) ==
    LET nx == Batch_next(b, files, wd)
        x == parse_simulation(nx.sim, DefaultIndex)
    IN  IF nx.err = "StopIteration"
        THEN [batch |-> nx.batch, results |-> acc, err |-> "none"]
        ELSE IF nx.err # "none"
        THEN parse_all_tolerant([nx.batch EXCEPT !.count = @ + 1], files, wd,
                                Append(acc, False))
        ELSE IF x.err # "none"
        THEN [batch |-> nx.batch, results |-> acc, err |-> x.err]
        ELSE parse_all_tolerant(nx.batch, files, wd, Append(acc, x))

\* [self.parse_simulation(sim) for sim in self], from the cursor of b on
RECURSIVE parse_all(_, _, _, _)
parse_all(b, files, wd, acc) ==
    LET nx == Batch_next(b, files, wd)
        x == parse_simulation(nx.sim, DefaultIndex)
    IN  IF nx.err = "StopIteration"
        THEN [batch |-> nx.batch, results |-> acc, err |-> "none"]
        ELSE IF nx.err # "none"
        THEN [batch |-> nx.batch, results |-> acc, err |-> nx.err]
        ELSE IF x.err # "none"
        THEN [batch |-> nx.batch, results |-> acc, err |-> x.err]
        ELSE parse_all(nx.batch, files, wd, Append(acc, x))

\* pd.DataFrame.from_dict(error_dicts): one row per dict over the union of
\* the keys, NaN where a dict has no such key
DataFrame(error_dicts) ==
    LET columns == UNION {DOMAIN error_dicts[k].errors : k \in DOMAIN error_dicts}
    IN  [present |-> TRUE,
         columns |-> columns,
         rows |-> [k \in DOMAIN error_dicts |->
                     [c \in columns |->
                         IF c \in DOMAIN error_dicts[k].errors
                         THEN error_dicts[k].errors[c] ELSE NaN]]]

\* aggregate building the table from every record, the sentinels included
aggregate_unfiltered(b, files, wd) ==
    LET it == parse_all(Batch_iter(b), files, wd, <<>>)
        results == it.results
        completed == [present |-> TRUE,
                      values |-> [i \in 0..(N(b) - 1) |-> NotFalse(results[i + 1])]]
        frame == DataFrame(results)
    IN  IF it.err # "none" THEN [batch |-> it.batch, err |-> it.err]
        ELSE IF Len(results) # N(b)
        THEN [batch |-> it.batch, err |-> "ValueError"]
        ELSE [batch |-> [it.batch EXCEPT !.completed = completed,
                                         !.results = frame],
              err |-> IF frame.columns = {} THEN "TypeError" ELSE "none"]

\* aggregate appending the new rows to the rows it already holds
aggregate_incremental(b, files, wd) ==
    LET it == parse_all(Batch_iter(b), files, wd, <<>>)
        results == it.results
        completed == [present |-> TRUE,
                      values |-> [i \in 0..(N(b) - 1) |-> NotFalse(results[i + 1])]]
        error_dicts == SelectSeq(results, NotFalse)
        frame == DataFrame(error_dicts)
    IN  IF it.err # "none" THEN [batch |-> it.batch, err |-> it.err]
        ELSE IF Len(results) # N(b)
        THEN [batch |-> it.batch, err |-> "ValueError"]
        ELSE [batch |-> [it.batch EXCEPT
                            !.completed = completed,
                            !.results = [frame EXCEPT !.rows = b.results.rows \o @]],
              err |-> IF frame.columns = {} THEN "TypeError" ELSE "none"]

\* Sweep.aggregate: the object after the call and the exception, if any
aggregate(b, files, wd) ==
    LET it == parse_all(Batch_iter(b), files, wd, <<>>)
        results == it.results
        completed == [present |-> TRUE,
                      values |-> [i \in 0..(N(b) - 1) |-> NotFalse(results[i + 1])]]
        error_dicts == SelectSeq(results, NotFalse)
        frame == DataFrame(error_dicts)
    IN  IF it.err # "none" THEN [batch |-> it.batch, err |-> it.err]
        ELSE IF Len(results) # N(b)
        THEN [batch |-> it.batch, err |-> "ValueError"]
        ELSE [batch |-> [it.batch EXCEPT !.completed = completed,
                                         !.results = frame],
              \* MultiIndex.from_tuples refuses an empty column list
              err |-> IF frame.columns = {} THEN "TypeError" ELSE "none"]

\* ------------------------------------------------------------------ actions
\* the state a fresh session is in once the sweep object is constructed
Init ==
    /\ cwd = Work
    /\ dirs = {Work}
    /\ pickles = EmptyFn
    /\ simfiles = EmptyFn
    /\ textfiles = EmptyFn
    /\ stores = EmptyFn
    /\ batch \in {NewBatch(n) : n \in 1..MaxN}
    /\ held = EmptyFn
    /\ iter = NoLoop
    /\ inner = NoLoop
    /\ last = NoCall
    /\ psim = ConditionSimulation(build_model(ParamSet(0)), "")
    /\ parsed = False

\* batch.build(directory, batch_size, **sim_kw) on the constructed object;
\* fault is the index whose build_model raises, -1 when none does
Build ==
    /\ batch.path = NoPath
    /\ \E directory \in Directories, batch_size \in 1..MaxBatchSize,
          sim_kw \in SimKws, fault \in -1..(N(batch) - 1) :
          LET r == build(batch, disk, cwd, directory, batch_size, sim_kw, fault,
                         BatchName)
          IN  /\ batch' = r.batch
              /\ dirs' = r.dirs
              /\ pickles' = r.pickles
              /\ simfiles' = r.simfiles
              /\ textfiles' = r.textfiles
              /\ last' = Call("build", 0, r.err, r.open)
    /\ UNCHANGED <<cwd, held, iter, psim, parsed, stores, inner>>

\* the places a session is started in and the paths it may load from
BatchRoot == Work \o <<BatchName>>

LoadPaths == {Rel(<<BatchName>>), Rel(<<>>), [abs |-> TRUE, comps |-> BatchRoot]}

\* a new session in directory wd calls Batch.load(path) on a stored batch; the
\* objects of the session before it are gone
Load ==
    /\ \E wd \in {Work, BatchRoot}, path \in LoadPaths :
          /\ Resolve(wd, join(path, Rel(<<"batch.pkl">>))) \in DOMAIN pickles
          /\ cwd' = wd
          /\ batch' = load(pickles, wd, path)
          /\ last' = Call("load", path, "none", 0)
    /\ held' = EmptyFn
    /\ iter' = NoLoop
    /\ inner' = NoLoop
    /\ UNCHANGED <<dirs, pickles, simfiles, textfiles, stores, psim, parsed>>

\* the caller starts `for simulation in batch`; round counts the loops the
\* caller has started on this object, up to 2
IterStart ==
    /\ batch' = Batch_iter(batch)
    /\ iter' = [state |-> "active", yielded |-> <<>>,
                round |-> IF iter.round < 2 THEN iter.round + 1 ELSE 2]
    /\ last' = Call("__iter__", 0, "none", 0)
    /\ UNCHANGED <<cwd, dirs, pickles, simfiles, textfiles, held, psim, parsed,
                   stores, inner>>

\* the for-loop asks for the next simulation
IterNext ==
    /\ iter.state = "active"
    /\ LET nx == Batch_next(batch, simfiles, cwd)
           i == batch.count
       IN  /\ batch' = nx.batch
           /\ IF nx.err = "none"
              THEN /\ iter' = [iter EXCEPT !.yielded = Append(@, i)]
                   /\ held' = [k \in DOMAIN held \cup {i} |->
                                  IF k = i THEN nx.sim ELSE held[k]]
              ELSE /\ iter' = [iter EXCEPT !.state =
                                  IF nx.err = "StopIteration" THEN "stopped"
                                  ELSE "raised"]
                   /\ held' = held
           /\ last' = Call("__next__", i, nx.err, 0)
    /\ UNCHANGED <<cwd, dirs, pickles, simfiles, textfiles, psim, parsed, stores,
                   inner>>

\* the caller runs simulate() and compare() on a simulation it holds, without
\* saving it
Mutate ==
    /\ \E i \in DOMAIN held :
          /\ ~held[i].comparisons.present
          /\ held' = [held EXCEPT ![i] =
                         [simulate(held[i], ConditionOrder, 1) EXCEPT
                             !.comparisons =
                                 compare(held[i].model, "Comparison",
                                         [c \in Conditions |-> <<TRUE>>])]]
    /\ last' = Call("compare", 0, "none", 0)
    /\ UNCHANGED <<cwd, dirs, pickles, simfiles, textfiles, batch, iter,
                   psim, parsed, stores, inner>>

\* batch.load_simulation(index) and batch[index]
LoadSimulation ==
    /\ \E index \in -1..MaxN :
          \/ LET r == load_simulation(batch, simfiles, cwd, index)
             IN  last' = Call("load_simulation", index, r.err, r.sim)
          \/ LET r == getitem(batch, simfiles, cwd, index)
             IN  last' = Call("__getitem__", index, r.err, r.sim)
    /\ UNCHANGED <<cwd, dirs, pickles, simfiles, textfiles, batch, held, iter,
                   psim, parsed, stores, inner>>

\* batch.apply(func)
Apply ==
    /\ \E func \in Funcs :
          LET r == apply(batch, simfiles, cwd, func)
          IN  last' = Call("apply", func, r.err, r.ret)
    /\ UNCHANGED <<cwd, dirs, pickles, simfiles, textfiles, batch, held, iter,
                   psim, parsed, stores, inner>>

\* the batch job of one stored simulation: load, simulate, compare, save
Run ==
    /\ \E f \in DOMAIN simfiles, o \in RunOutcomes :
          LET simulation == simfiles[f]
              compared == [simulate(simulation, ConditionOrder, 1) EXCEPT
                              !.comparisons =
                                  compare(simulation.model, o.cls, o.reached)]
          IN  /\ ~simulation.comparisons.present
              /\ simfiles' = [simfiles EXCEPT ![f] = SimState(compared, FALSE)]
    /\ last' = Call("run", 0, "none", 0)
    /\ UNCHANGED <<cwd, dirs, pickles, textfiles, batch, held, iter, psim, parsed,
                   stores, inner>>

\* sweep.aggregate() on a sweep that has a path; arg counts the aggregate
\* calls in a row, up to 2
Aggregate ==
    /\ batch.path # NoPath
    /\ LET r == aggregate(batch, simfiles, cwd)
       IN  /\ batch' = r.batch
           /\ last' = Call("aggregate",
                           IF last.op = "aggregate" THEN 2 ELSE 1, r.err, 0)
    /\ UNCHANGED <<cwd, dirs, pickles, simfiles, textfiles, held, iter,
                   psim, parsed, stores, inner>>

\* building, loading and reading a batch whose jobs are running
Next ==
    \/ Build
    \/ Load
    \/ LoadSimulation
    \/ Apply
    \/ Run

Spec == Init /\ [][Next]_vars

\* iterating over a batch
NextIter ==
    \/ Build
    \/ Load
    \/ IterStart
    \/ IterNext
    \/ Mutate

SpecIter == Init /\ [][NextIter]_vars

\* aggregating a sweep whose jobs are running
NextSweep ==
    \/ Build
    \/ Load
    \/ Run
    \/ Aggregate

SpecSweep == Init /\ [][NextSweep]_vars

\* parse_simulation on every simulation a job can leave behind
NotCalled == [ok |-> FALSE, err |-> "not called", errors |-> EmptyFn]

Simulations ==
    {ConditionSimulation(build_model(ParamSet(0)), "pulse_a")}
    \cup {[ConditionSimulation(build_model(ParamSet(0)), "pulse_a") EXCEPT
              !.comparisons = compare(build_model(ParamSet(0)), o.cls, o.reached)] :
          o \in Outcomes}

InitParse ==
    /\ cwd = Work
    /\ dirs = {Work}
    /\ pickles = EmptyFn
    /\ simfiles = EmptyFn
    /\ textfiles = EmptyFn
    /\ stores = EmptyFn
    /\ batch = NewBatch(1)
    /\ held = EmptyFn
    /\ iter = NoLoop
    /\ inner = NoLoop
    /\ last = NoCall
    /\ psim \in Simulations
    /\ parsed = NotCalled

Parse ==
    /\ parsed = NotCalled
    /\ parsed' = parse_simulation(psim, DefaultIndex)
    /\ UNCHANGED <<cwd, dirs, pickles, simfiles, textfiles, batch, held, iter,
                   last, psim, stores, inner>>

NextParse == Parse

SpecParse == InitParse /\ [][NextParse]_vars

\* ------------------------------------------------------------------ claims
\* C1: after build, Batch.load of the batch directory yields a batch whose
\* simulation_paths has exactly N entries, with keys exactly 0..N-1.
C1_LoadedPathsComplete ==
    last.op = "load" =>
        /\ NumPaths(batch) = N(batch)
        /\ DOMAIN batch.simulation_paths = 0..(N(batch) - 1)

\* a batch of MaxN parameter sets was built and loaded
C1_Witness ==
    /\ last.op = "load"
    /\ N(batch) = MaxN
    /\ NumPaths(batch) = MaxN

\* the simulation stored for index i of the batch on disk
StoredFile(i) ==
    BatchRoot \o <<"simulations", ToString(i), "simulation.pkl">>

StoredSim(i) == simfiles[StoredFile(i)]

\* the members of a finite set of integers in ascending order
RECURSIVE Ascending(_)
Ascending(S) == IF S = {} THEN <<>> ELSE <<Min(S)>> \o Ascending(S \ {Min(S)})

\* the indices aggregate marked as completed
CompletedIndices == {i \in DOMAIN batch.completed.values : batch.completed.values[i]}

\* aggregate has just assigned completed and results
Aggregated == last.op = "aggregate" /\ last.err \in {"none", "TypeError"}

\* C2: after aggregate, the k-th row of results is the parsed record of the
\* k-th smallest index whose completed entry is true; failed samples leave no
\* row and no padding.
C2_RowsInAscendingIndexOrder ==
    Aggregated =>
        LET idx == Ascending(CompletedIndices)
        IN  /\ Len(batch.results.rows) = Len(idx)
            /\ \A k \in 1..Len(idx) :
                  LET record == parse_simulation(StoredSim(idx[k]), DefaultIndex)
                  IN  /\ record.ok
                      /\ DOMAIN batch.results.rows[k] = DOMAIN record.errors
                      /\ \A key \in DOMAIN record.errors :
                            batch.results.rows[k][key] = record.errors[key]

\* three samples, the middle one failed: the second row is that of index 2
C2_Witness ==
    /\ Aggregated
    /\ N(batch) = 3
    /\ CompletedIndices = {0, 2}
    /\ Len(batch.results.rows) = 2

\* the parameter sets whose metrics appear in a row of results
RowSources(row) ==
    {row[key].v[1][1] : key \in {k \in DOMAIN row : Len(row[k].v) > 0}}

\* C3: after aggregate on a built sweep, completed has exactly N entries, its
\* number of true entries is the number of rows of results, and no sample
\* whose entry is false contributes a row.
C3_CompletedPartition ==
    Aggregated =>
        /\ DOMAIN batch.completed.values = 0..(N(batch) - 1)
        /\ Cardinality(CompletedIndices) = Len(batch.results.rows)
        /\ \A k \in DOMAIN batch.results.rows :
              /\ batch.results.rows[k] # [c \in batch.results.columns |-> NaN]
              /\ RowSources(batch.results.rows[k])
                    \subseteq {batch.parameters[i] : i \in CompletedIndices}

\* an aggregate with completed and failed samples
C3_Witness ==
    /\ Aggregated
    /\ CompletedIndices # {}
    /\ Cardinality(CompletedIndices) < N(batch)
    /\ \E k \in DOMAIN batch.results.rows : RowSources(batch.results.rows[k]) # {}

\* over every simulation a job can leave behind, parse_simulation returns
\* False exactly for the one without comparisons and never raises
SentinelExactly ==
    \A s \in Simulations :
        LET x == parse_simulation(s, DefaultIndex)
        IN  /\ x.err = "none"
            /\ (x = False) <=> ~s.comparisons.present
            /\ x.ok <=> s.comparisons.present

\* C5: parse_simulation returns the false-sentinel, without raising, exactly
\* when the comparisons are absent and a record otherwise; aggregate sets
\* completed[i] exactly for the records, and a sample without comparisons
\* does not keep aggregate from finishing with the rows of the others.
C5_SentinelNotException ==
    /\ SentinelExactly
    /\ Aggregated =>
          /\ \A i \in 0..(N(batch) - 1) :
                batch.completed.values[i]
                    <=> (parse_simulation(StoredSim(i), DefaultIndex) # False)
          /\ (\E i \in 0..(N(batch) - 1) : StoredSim(i).comparisons.present)
                => /\ last.err = "none"
                   /\ Len(batch.results.rows) =
                        Cardinality({i \in 0..(N(batch) - 1) :
                                        StoredSim(i).comparisons.present})

\* aggregate finished over a batch with a sample that has no comparisons and
\* a sample with an unreached condition
C5_Witness ==
    /\ last.op = "aggregate" /\ last.err = "none"
    /\ \E i \in 0..(N(batch) - 1) : ~StoredSim(i).comparisons.present
    /\ \E i \in 0..(N(batch) - 1) :
          /\ StoredSim(i).comparisons.present
          /\ \E c \in Conditions : ~Reached(StoredSim(i).comparisons.items[c])
          /\ batch.completed.values[i]

\* C6: an aggregate call that directly follows an aggregate call, the disk
\* unchanged in between, leaves results and completed as the first call
\* left them.
C6_AggregateIdempotent ==
    [][(Aggregate /\ last.op = "aggregate")
          => (batch'.results = batch.results
              /\ batch'.completed = batch.completed)]_vars

\* two aggregate calls in a row over a batch that had been aggregated before
\* with fewer completed samples
C6_Witness ==
    /\ last.op = "aggregate" /\ last.arg = 2 /\ last.err = "none"
    /\ Len(batch.results.rows) >= 2
    /\ Cardinality(CompletedIndices) < N(batch)

\* C4: the record of a simulation with comparisons holds all six metric keys
\* of every condition; those of a condition that reached no valid state are
\* all None, and every recorded value is a value of its own condition.
C4_SixKeysPerCondition ==
    (parsed # NotCalled /\ psim.comparisons.present) =>
        LET items == psim.comparisons.items
        IN  /\ parsed.ok /\ parsed.err = "none"
            /\ DOMAIN parsed.errors = (DOMAIN items) \X Metrics
            /\ \A c \in DOMAIN items, m \in Metrics :
                  LET value == parsed.errors[<<c, m>>]
                      rc == items[c].reached_comparison
                  IN  IF \A t \in DOMAIN rc : ~rc[t]
                      THEN value = None
                      ELSE /\ value.kind \notin {"None", "NaN"}
                           /\ \A p \in DOMAIN value.v :
                                 value.v[p][2] = c /\ value.v[p][3] = m

\* a composite simulation parsed with one condition reached and one not
C4_Witness ==
    /\ parsed.ok
    /\ \E c \in Conditions : parsed.errors[<<c, "error">>] = None
    /\ \E c \in Conditions : parsed.errors[<<c, "error">>].kind = "scalar"
    /\ \E c \in Conditions : psim.comparisons.items[c].cls = "MultiComparison"

\* build wrote batch.pkl for the object of the session: every simulation of
\* the batch is stored and its path recorded
BatchBuilt ==
    /\ batch.path # NoPath
    /\ Resolve(cwd, join(batch.path, Rel(<<"batch.pkl">>))) \in DOMAIN pickles

\* C7: a for-loop over a built batch yields the simulations of the indices
\* 0, 1, ..., N-1 in that order and stops, in every loop the caller starts;
\* each simulation it yields is the one on disk at that moment, whatever the
\* caller did to the simulations yielded before.
C7_LazyRestartableIteration ==
    [][/\ (iter.state = "active" /\ iter'.state = "stopped" /\ BatchBuilt)
            => iter'.yielded = [k \in 1..N(batch) |-> k - 1]
       /\ (Len(iter'.yielded) > Len(iter.yielded))
            => LET i == iter'.yielded[Len(iter'.yielded)]
               IN  /\ i = Len(iter.yielded)
                   /\ BatchBuilt' => held'[i] = simfiles'[StoredFile(i)]]_vars

\* the second loop over a batch has yielded index 0 afresh while the caller
\* still holds the simulation of a later index that it changed
C7_Witness ==
    /\ BatchBuilt
    /\ iter.round = 2 /\ iter.yielded = <<0>>
    /\ held[0] = StoredSim(0)
    /\ \E i \in DOMAIN held : held[i] # StoredSim(i)

\* load_simulation or batch[index] was the last call
Indexed == last.op \in {"load_simulation", "__getitem__"}

\* C8 as stated: on a built batch load_simulation(index) raises IndexError
\* for an index outside [0, N) and loads the stored simulation otherwise.
C8_IndexError ==
    (Indexed /\ BatchBuilt) =>
        IF last.arg \in 0..(N(batch) - 1)
        THEN last.err = "none" /\ last.ret = StoredSim(last.arg)
        ELSE last.err = "IndexError"

\* C8 amended: on a built batch load_simulation(index) raises KeyError for
\* an index outside [0, N), and for an index inside it loads the simulation
\* stored at simulation_paths[index] below the batch path.
C8_KeyError ==
    (Indexed /\ BatchBuilt) =>
        IF last.arg \in 0..(N(batch) - 1)
        THEN /\ last.err = "none"
             /\ last.ret = simfiles[Resolve(cwd, batch.path)
                                    \o batch.simulation_paths[last.arg].comps
                                    \o <<"simulation.pkl">>]
             /\ last.ret = StoredSim(last.arg)
        ELSE last.err = "KeyError"

\* the index N was asked for on a built batch of MaxN simulations
C8_Witness ==
    /\ Indexed /\ BatchBuilt
    /\ N(batch) = MaxN
    /\ last.arg = N(batch) /\ last.err = "KeyError"

\* C9 as stated: apply on a built batch returns func of every stored
\* simulation, keyed by 0..N-1, the paths resolved below the batch path.
C9_ApplyDense ==
    (last.op = "apply" /\ BatchBuilt) =>
        /\ last.err = "none"
        /\ DOMAIN last.ret = 0..(N(batch) - 1)
        /\ \A i \in DOMAIN last.ret :
              last.ret[i] = CallFunc(last.arg, StoredSim(i))

\* ceil(n / batch_size)
NumChunks(n, batch_size) == (n + batch_size - 1) \div batch_size

\* the chunk file of chunk c
ChunkFile(c) == BatchRoot \o <<"batches", ToString(c) \o ".txt">>

\* the indices 0..N-1 that chunk c holds, in ascending order
ChunkLines(b, c) ==
    LET first == c * b.batch_size
        lastIndex == IF (c + 1) * b.batch_size < N(b)
                     THEN (c + 1) * b.batch_size - 1 ELSE N(b) - 1
    IN  [k \in 1..(lastIndex - first + 1) |-> b.simulation_paths[first + k - 1]]

\* C10 as stated: a build that built every simulation leaves exactly
\* ceil(N / batch_size) chunk files, chunk c listing the paths of its indices
\* in ascending order, and batches/index.txt listing the chunk files.
C10_ChunkFilesWritten ==
    (last.op = "build" /\ BatchBuilt) =>
        LET chunks == 0..(NumChunks(N(batch), batch.batch_size) - 1)
            index == BatchRoot \o <<"batches", "index.txt">>
        IN  /\ DOMAIN textfiles = {ChunkFile(c) : c \in chunks} \cup {index}
            /\ \A c \in chunks : textfiles[ChunkFile(c)] = ChunkLines(batch, c)
            /\ Len(textfiles[index]) = NumChunks(N(batch), batch.batch_size)
            /\ \A c \in chunks :
                  Resolve(cwd, textfiles[index][c + 1]) = ChunkFile(c)

\* ------------------------------------------------------- writing chunk files
\* the statements of build_path_files from its loop on (lines 176-194), with
\* batches_index a handle open for writing on batches/index.txt.  finalize
\* tells whether the interpreter closes the files the frame still refers to
\* when the function returns: a reference-counting interpreter does, the
\* language does not promise it
path_files_loop(b, tf, wd, batch_size, finalize) ==
    LET batches_dir == join(b.path, Rel(<<"batches">>))
        index_file == Resolve(wd, join(batches_dir, Rel(<<"index.txt">>)))
        st0 == [textfiles |-> [f \in DOMAIN tf \cup {index_file} |->
                                  IF f = index_file THEN <<>> ELSE tf[f]],
                open |-> {}, batch_file |-> <<>>,
                index_file |-> index_file, index_writable |-> TRUE,
                err |-> "none"]
        st == write_path_files(0, b, wd, batch_size, st0)
    IN  [st EXCEPT !.open = IF finalize THEN {} ELSE @]

\* the loop of build_path_files over the paths of a built batch
PathFilesLoop ==
    /\ BatchBuilt
    /\ \E batch_size \in 1..MaxBatchSize, finalize \in Booleans :
          LET r == path_files_loop(batch, textfiles, cwd, batch_size, finalize)
          IN  /\ textfiles' = r.textfiles
              /\ last' = Call("build_path_files", batch_size, r.err, r.open)
    /\ UNCHANGED <<cwd, dirs, pickles, simfiles, batch, held, iter, psim, parsed,
                   stores, inner>>

NextFiles ==
    \/ Build
    \/ Load
    \/ PathFilesLoop

SpecFiles == Init /\ [][NextFiles]_vars

LoadedPickle == pickles[Resolve(cwd, join(last.arg, Rel(<<"batch.pkl">>)))]

\* C12: Batch.load(p) returns a batch whose path is p, whatever path the
\* pickled object recorded, and whose parameters, simulation_paths and sim_kw
\* are those of the pickled object.
C12_LoadReattachesPath ==
    last.op = "load" =>
        /\ batch.path = last.arg
        /\ batch.parameters = LoadedPickle.parameters
        /\ batch.simulation_paths = LoadedPickle.simulation_paths
        /\ batch.sim_kw = LoadedPickle.sim_kw

\* a batch of MaxN simulations loaded through a path other than the one it
\* was built with
C12_Witness ==
    /\ last.op = "load"
    /\ LoadedPickle.path # last.arg
    /\ NumPaths(batch) = MaxN
    /\ batch.sim_kw \in SimKws

\* ------------------------------------------------ storing one simulation
\* largest number of simulate() calls on the simulation at hand
MaxRuns == 2

\* the directory a simulation is saved to and loaded from
SimPath == Rel(<<"sim">>)

\* the lists of conditions simulate is given
ConditionLists ==
    {<<"normal">>, <<"diabetic">>, ConditionOrder, <<"diabetic", "normal">>}

\* the directories of a simulation directory: one per condition, holding the
\* control and the perturbation store
SubDir(wd, path, c) == Resolve(wd, join(path, Rel(<<c>>)))

ControlDir(wd, path, c) == Resolve(wd, join(path, Rel(<<c, "control">>)))

PerturbationDir(wd, path, c) ==
    Resolve(wd, join(path, Rel(<<c, "perturbation">>)))

\* TimeSeries.save(path): the store directory holds the trajectories
TimeSeries_save(st, dir, ts) ==
    [st EXCEPT !.dirs = @ \cup {dir},
               !.stores = [d \in DOMAIN @ \cup {dir} |->
                              IF d = dir THEN ts ELSE @[d]]]

\* TimeSeries.load(path)
TimeSeries_load(trajs, dir) == trajs[dir]

\* the loop of save over self.dynamics.items(), for the conditions in todo
RECURSIVE save_trajectories(_, _, _, _, _)
save_trajectories(simulation, st, wd, path, todo) ==
    IF todo = {} THEN st
    ELSE LET c == CHOOSE x \in todo : TRUE
             made == [st EXCEPT !.dirs = @ \cup {SubDir(wd, path, c)}]
             before == TimeSeries_save(made, ControlDir(wd, path, c),
                                       simulation.dynamics.items[c][1])
             after == TimeSeries_save(before, PerturbationDir(wd, path, c),
                                      simulation.dynamics.items[c][2])
         IN  save_trajectories(simulation, after, wd, path, todo \ {c})

\* ConditionSimulation.save(path, saveall): the object, the disk and the
\* exception after the call; st holds dirs, simfiles and stores
ConditionSimulation_save(simulation, st, wd, path, saveall) ==
    LET kept == IF saveall
                THEN save_trajectories(simulation, st, wd, path,
                                       DOMAIN simulation.dynamics.items)
                ELSE st
        saved == [simulation EXCEPT !.saveall = saveall]
    IN  IF saveall /\ ~simulation.dynamics.present
        THEN [sim |-> simulation, disk |-> st, err |-> "AttributeError"]
        ELSE IF ~isdir(st.dirs, wd, path)
        THEN [sim |-> IF saveall THEN simulation ELSE saved, disk |-> st,
              err |-> "FileNotFoundError"]
        ELSE [sim |-> saved,
              disk |-> [kept EXCEPT !.simfiles =
                          [f \in DOMAIN @ \cup {SimFile(wd, path)} |->
                              IF f = SimFile(wd, path)
                              THEN SimState(saved, saveall) ELSE @[f]]],
              err |-> "none"]

\* before and after of load_trajectories before anything is assigned to them
Unbound == <<>>

\* the first loop of load_trajectories, from the k-th condition on; st holds
\* the locals before and after and the dynamics collected so far
RECURSIVE load_conditions(_, _, _, _, _, _, _)
load_conditions(k, conditions, st, ds, trajs, wd, path) ==
    IF k > Len(conditions) \/ st.err # "none" THEN st
    ELSE LET c == conditions[k]
             before == IF ControlDir(wd, path, c) \in ds
                       THEN <<TimeSeries_load(trajs, ControlDir(wd, path, c))>>
                       ELSE st.before
             after == IF PerturbationDir(wd, path, c) \in ds
                      THEN <<TimeSeries_load(trajs, PerturbationDir(wd, path, c))>>
                      ELSE st.after
         IN  IF SubDir(wd, path, c) \notin ds
             THEN load_conditions(k + 1, conditions, st, ds, trajs, wd, path)
             ELSE IF before = Unbound \/ after = Unbound
             THEN [st EXCEPT !.before = before, !.after = after,
                             !.err = "UnboundLocalError"]
             ELSE load_conditions(k + 1, conditions,
                      [st EXCEPT
                          !.before = before, !.after = after,
                          !.dynamics = [x \in DOMAIN @ \cup {c} |->
                                           IF x = c THEN <<before[1], after[1]>>
                                           ELSE @[x]]],
                      ds, trajs, wd, path)

\* ConditionSimulation.load_trajectories(path, simulation); the second loop
\* hands dynamics[condition] to the comparison of each condition
load_trajectories(simulation, ds, trajs, wd, path) ==
    LET st == load_conditions(1, simulation.conditions,
                  [before |-> Unbound, after |-> Unbound, dynamics |-> EmptyFn,
                   err |-> "none"], ds, trajs, wd, path)
    IN  IF st.err # "none" THEN [err |-> st.err, sim |-> simulation]
        ELSE IF ~simulation.comparisons.present
        THEN [err |-> "AttributeError", sim |-> simulation]
        ELSE IF DOMAIN simulation.comparisons.items \ DOMAIN st.dynamics # {}
        THEN [err |-> "KeyError", sim |-> simulation]
        ELSE [err |-> "none",
              sim |-> [simulation EXCEPT
                          !.dynamics = [present |-> TRUE, items |-> st.dynamics]]]

\* ConditionSimulation.load(path) on a disk that may hold trajectories;
\* ConditionSimulation_load is its case saveall = False
ConditionSimulation_loadall(files, ds, trajs, wd, path) ==
    LET base == ConditionSimulation_load(files, wd, path)
    IN  IF base.err # "none" THEN base
        ELSE IF base.sim.saveall
        THEN load_trajectories(base.sim, ds, trajs, wd, path)
        ELSE base

\* ConditionSimulation.compare(), inplace: one comparison per condition of
\* dynamics
ConditionSimulation_compare(simulation, cls, reached) ==
    IF ~simulation.dynamics.present
    THEN [err |-> "AttributeError", sim |-> simulation]
    ELSE [err |-> "none",
          sim |-> [simulation EXCEPT !.comparisons =
                      [present |-> TRUE,
                       items |-> [c \in DOMAIN simulation.dynamics.items |->
                                    Comparison(cls, simulation.model, c,
                                               reached[c])]]]]

\* the simulation the session holds
Held == held[0]

\* the run of the trajectories the simulation holds, 0 when it holds none
RunOf(simulation) ==
    IF simulation.dynamics.present
    THEN LET c == CHOOSE x \in DOMAIN simulation.dynamics.items : TRUE
         IN  simulation.dynamics.items[c][1][4]
    ELSE 0

\* a session with one constructed simulation and an empty directory for it
InitStore ==
    /\ cwd = Work
    /\ dirs = {Work, Resolve(Work, SimPath)}
    /\ pickles = EmptyFn
    /\ simfiles = EmptyFn
    /\ textfiles = EmptyFn
    /\ stores = EmptyFn
    /\ batch = NewBatch(1)
    /\ held = [i \in {0} |->
                 ConditionSimulation(build_model(ParamSet(0)), "pulse_a")]
    /\ iter = NoLoop
    /\ inner = NoLoop
    /\ last = NoCall
    /\ psim = ConditionSimulation(build_model(ParamSet(0)), "")
    /\ parsed = False

\* simulation.simulate(conditions=conditions)
Simulate ==
    /\ RunOf(Held) < MaxRuns
    /\ \E conditions \in ConditionLists :
          held' = [held EXCEPT ![0] = simulate(@, conditions, RunOf(Held) + 1)]
    /\ last' = Call("simulate", 0, "none", 0)
    /\ UNCHANGED <<cwd, dirs, pickles, simfiles, textfiles, stores, batch, iter,
                   psim, parsed, inner>>

\* simulation.compare()
Compare ==
    /\ LET r == ConditionSimulation_compare(Held, "Comparison",
                                            [c \in Conditions |-> <<TRUE>>])
       IN  /\ held' = [held EXCEPT ![0] = r.sim]
           /\ last' = Call("compare", 0, r.err, 0)
    /\ UNCHANGED <<cwd, dirs, pickles, simfiles, textfiles, stores, batch, iter,
                   psim, parsed, inner>>

\* simulation.save(path, saveall)
Save ==
    /\ \E saveall \in Booleans :
          LET r == ConditionSimulation_save(Held,
                       [dirs |-> dirs, simfiles |-> simfiles, stores |-> stores],
                       cwd, SimPath, saveall)
          IN  /\ held' = [held EXCEPT ![0] = r.sim]
              /\ dirs' = r.disk.dirs
              /\ simfiles' = r.disk.simfiles
              /\ stores' = r.disk.stores
              /\ last' = Call("save", saveall, r.err, 0)
    /\ UNCHANGED <<cwd, pickles, textfiles, batch, iter, psim, parsed, inner>>

\* ConditionSimulation.load(path); the session keeps the object it saved
LoadAll ==
    /\ LET r == ConditionSimulation_loadall(simfiles, dirs, stores, cwd, SimPath)
       IN  last' = Call("load", SimPath, r.err, r.sim)
    /\ UNCHANGED <<cwd, dirs, pickles, simfiles, textfiles, stores, batch, held,
                   iter, psim, parsed, inner>>

\* a trajectory store is missing from the simulation directory, as after an
\* incomplete copy of it
DropStore ==
    /\ \E d \in DOMAIN stores :
          /\ dirs' = dirs \ {d}
          /\ stores' = [x \in DOMAIN stores \ {d} |-> stores[x]]
    /\ last' = Call("rmtree", 0, "none", 0)
    /\ UNCHANGED <<cwd, pickles, simfiles, textfiles, batch, held, iter, psim,
                   parsed, inner>>

NextStore ==
    \/ Simulate
    \/ Compare
    \/ Save
    \/ LoadAll
    \/ DropStore

SpecStore == InitStore /\ [][NextStore]_vars

\* the simulation the last load returned equals the one the session saved,
\* the way the kind of save promises
RoundTrip(saved, saveall, loaded) ==
    IF ~saveall
    THEN /\ loaded.model = saved.model
         /\ loaded.kw = saved.kw
         /\ loaded.conditions = saved.conditions
         /\ loaded.comparisons = saved.comparisons
         /\ ~loaded.dynamics.present
    ELSE /\ loaded.dynamics.present
         /\ \A c \in DOMAIN saved.dynamics.items :
               SubDir(cwd, SimPath, c) \in dirs
                   => /\ c \in DOMAIN loaded.dynamics.items
                      /\ loaded.dynamics.items[c] = saved.dynamics.items[c]

\* C13 as stated: a load from the path a simulation was just saved to
\* succeeds; saved without trajectories, the loaded model, configuration and
\* comparisons equal the saved ones and no trajectories are loaded; saved
\* with saveall, the (before, after) of every condition on disk equal the
\* saved ones.
C13_SaveLoadRoundTrip ==
    [][(LoadAll /\ last.op = "save" /\ last.err = "none")
          => /\ last'.err = "none"
             /\ RoundTrip(Held, last.arg, last'.ret)]_vars

\* C20 as stated: in a simulation loaded with its trajectories, the pair
\* stored for a condition holds the trajectories of that condition's own
\* control and perturbation stores, never those loaded for another
\* condition.
C20_OwnTrajectoriesOnly ==
    (last.op = "load" /\ last.arg = SimPath /\ last.err = "none"
     /\ last.ret.dynamics.present)
        => \A c \in DOMAIN last.ret.dynamics.items :
              /\ ControlDir(cwd, SimPath, c) \in DOMAIN stores
              /\ PerturbationDir(cwd, SimPath, c) \in DOMAIN stores
              /\ last.ret.dynamics.items[c] =
                     <<stores[ControlDir(cwd, SimPath, c)],
                       stores[PerturbationDir(cwd, SimPath, c)]>>

\* ------------------------------------------------------- nested iteration
\* inside the body of the first loop the caller starts a second
\* `for simulation in batch` over the same object, once in a session
InnerStart ==
    /\ iter.state = "active"
    /\ inner.state = "idle"
    /\ batch' = Batch_iter(batch)
    /\ inner' = [state |-> "active", yielded |-> <<>>, round |-> 1]
    /\ last' = Call("__iter__", 1, "none", 0)
    /\ UNCHANGED <<cwd, dirs, pickles, simfiles, textfiles, stores, held, iter,
                   psim, parsed>>

\* the second loop asks for the next simulation; the loop is followed for
\* at most MaxN + 1 simulations
InnerNext ==
    /\ inner.state = "active"
    /\ Len(inner.yielded) <= MaxN
    /\ LET nx == Batch_next(batch, simfiles, cwd)
           i == batch.count
       IN  /\ batch' = nx.batch
           /\ IF nx.err = "none"
              THEN /\ inner' = [inner EXCEPT !.yielded = Append(@, i)]
                   /\ held' = [k \in DOMAIN held \cup {i} |->
                                  IF k = i THEN nx.sim ELSE held[k]]
              ELSE /\ inner' = [inner EXCEPT !.state =
                                   IF nx.err = "StopIteration" THEN "stopped"
                                   ELSE "raised"]
                   /\ held' = held
           /\ last' = Call("__next__", i, nx.err, 1)
    /\ UNCHANGED <<cwd, dirs, pickles, simfiles, textfiles, stores, iter, psim,
                   parsed>>

NextNested ==
    \/ Build
    \/ Load
    \/ IterStart
    \/ IterNext
    \/ InnerStart
    \/ InnerNext

SpecNested == Init /\ [][NextNested]_vars

\* C14 as stated: of two loops over the same built batch that are
\* interleaved, each yields the simulations of 0, 1, ..., N-1 in that order
\* before it stops.
C14_OwnCursorPerIteration ==
    [][/\ (iter.state = "active" /\ iter'.state = "stopped" /\ BatchBuilt)
            => iter'.yielded = [k \in 1..N(batch) |-> k - 1]
       /\ (inner.state = "active" /\ inner'.state = "stopped" /\ BatchBuilt)
            => inner'.yielded = [k \in 1..N(batch) |-> k - 1]]_vars

\* ---------------------------------------------------------- building again
\* batch.build(...) on an object that has a path already, in the second of
\* its first build or later, by a session in the starting directory
BuildAgain ==
    /\ batch.path # NoPath
    /\ cwd = Work
    /\ \E directory \in Directories, sim_kw \in SimKws,
          name \in {BatchName, LaterName} :
          \E r \in {build(batch, disk, cwd, directory, MaxBatchSize, sim_kw, -1,
                          name)} :
              /\ batch' = r.batch
              /\ dirs' = r.dirs
              /\ pickles' = r.pickles
              /\ simfiles' = r.simfiles
              /\ textfiles' = r.textfiles
              /\ last' = Call("build", 1, r.err, r.open)
    /\ UNCHANGED <<cwd, stores, held, iter, inner, psim, parsed>>

\* a new session constructs a sweep of its own and builds it in './' of the
\* starting directory, where batches are stored already
BuildOver ==
    /\ DOMAIN pickles # {}
    /\ \E n \in 1..MaxN, sim_kw \in SimKws, name \in {BatchName, LaterName} :
          \E r \in {build(NewBatch(n), disk, Work, Rel(<<>>), MaxBatchSize,
                          sim_kw, -1, name)} :
              /\ batch' = r.batch
              /\ dirs' = r.dirs
              /\ pickles' = r.pickles
              /\ simfiles' = r.simfiles
              /\ textfiles' = r.textfiles
              /\ last' = Call("build", 2, r.err, r.open)
    /\ cwd' = Work
    /\ held' = EmptyFn
    /\ iter' = NoLoop
    /\ inner' = NoLoop
    /\ UNCHANGED <<stores, psim, parsed>>

NextRebuild ==
    \/ Build
    \/ BuildAgain
    \/ BuildOver

SpecRebuild == Init /\ [][NextRebuild]_vars

\* C15 as stated: a build call on an object whose build wrote the batch
\* already assigns neither path nor simulation_paths anew.
C15_BuildFiresOnce ==
    [][(BuildAgain /\ BatchBuilt)
          => /\ batch'.path = batch.path
             /\ batch'.simulation_paths = batch.simulation_paths]_vars

Indices == (-(NumThresholds + 1))..NumThresholds

\* parse_simulation(simulation, index)
ParseAt ==
    /\ parsed = NotCalled
    /\ \E index \in Indices :
          /\ parsed' = parse_simulation(psim, index)
          /\ last' = Call("parse_simulation", index, "none", 0)
    /\ UNCHANGED <<cwd, dirs, pickles, simfiles, textfiles, stores, batch, held,
                   iter, inner, psim>>

NextParseAt ==
    \/ Parse
    \/ ParseAt

SpecParseAt == InitParse /\ [][NextParseAt]_vars

\* the index the parse at hand was given
ParsedIndex ==
    IF last.op = "parse_simulation" THEN last.arg ELSE DefaultIndex

\* the position of a vector of thresholds that ParsedIndex names, counted
\* from 1; outside 1..NumThresholds when there is none
ParsedPosition ==
    IF ParsedIndex < 0 THEN NumThresholds + ParsedIndex + 1
    ELSE ParsedIndex + 1

\* the conditions of psim whose comparison is composite and has a reached
\* threshold
CompositeReached ==
    {c \in DOMAIN psim.comparisons.items :
        /\ psim.comparisons.items[c].cls = "MultiComparison"
        /\ \E t \in Thresholds : psim.comparisons.items[c].reached_comparison[t]}

\* C17 as stated: a composite comparison is recorded as reached exactly when
\* one of its thresholds was reached, its six metrics are then vectors with
\* one entry per threshold, and the metrics of a simple comparison are
\* scalars.
C17_VectorValued ==
    (parsed # NotCalled /\ parsed.ok /\ parsed.err = "none") =>
        \A c \in DOMAIN psim.comparisons.items, m \in Metrics :
            LET comparison == psim.comparisons.items[c]
                value == parsed.errors[<<c, m>>]
            IN  IF comparison.cls = "MultiComparison"
                THEN IF c \in CompositeReached
                     THEN value.kind = "vector" /\ Len(value.v) = NumThresholds
                     ELSE value = None
                ELSE value.kind \in {"scalar", "None"}

\* C17 amended: a composite comparison is recorded as reached exactly when
\* one of its thresholds was reached; each of its six metrics is then the one
\* entry of the metric's vector at position index, a scalar, and IndexError
\* is raised when a reached composite comparison has no such position; the
\* metrics of a reached simple comparison are recorded as they are, scalars.
C17_EntryAtIndex ==
    (parsed # NotCalled /\ psim.comparisons.present) =>
        IF CompositeReached # {} /\ ParsedPosition \notin Thresholds
        THEN parsed.err = "IndexError"
        ELSE /\ parsed.ok /\ parsed.err = "none"
             /\ \A c \in DOMAIN psim.comparisons.items, m \in Metrics :
                   LET comparison == psim.comparisons.items[c]
                       value == parsed.errors[<<c, m>>]
                   IN  IF comparison.cls = "MultiComparison"
                       THEN IF c \in CompositeReached
                            THEN /\ value.kind = "scalar"
                                 /\ value.v = <<Field(comparison, m).v[ParsedPosition]>>
                            ELSE value = None
                       ELSE IF comparison.reached_comparison[1]
                            THEN value.kind = "scalar" /\ value = Field(comparison, m)
                            ELSE value = None

\* a composite simulation, one condition reached at a single threshold and
\* one not reached, parsed at the default index
C17_Witness ==
    /\ parsed.ok /\ parsed.err = "none"
    /\ ParsedIndex = DefaultIndex
    /\ Cardinality(CompositeReached) = 1
    /\ \E c \in CompositeReached :
          /\ Cardinality({t \in Thresholds :
                 psim.comparisons.items[c].reached_comparison[t]}) = 1
          /\ parsed.errors[<<c, "above">>].kind = "scalar"
    /\ \E c \in Conditions \ CompositeReached :
          /\ psim.comparisons.items[c].cls = "MultiComparison"
          /\ parsed.errors[<<c, "above">>] = None

\* C18 as stated: whenever build has ended, also with an exception raised
\* part-way through, every key of simulation_paths names a simulation that
\* was persisted below the batch path before the key was recorded.
C18_PersistedBeforeRecorded ==
    \A i \in DOMAIN batch.simulation_paths :
        SimFile(cwd, join(batch.path, batch.simulation_paths[i]))
            \in DOMAIN simfiles

\* ------------------------------------------ aggregating over a damaged batch
\* the stored simulations of the session's batch that are missing on disk
MissingSimulations ==
    {i \in DOMAIN batch.simulation_paths :
        SimFile(cwd, join(batch.path, batch.simulation_paths[i]))
            \notin DOMAIN simfiles}

\* the stored state of one simulation of a complete batch is lost
LoseSimulation ==
    /\ BatchBuilt
    /\ MissingSimulations = {}
    /\ \E i \in DOMAIN batch.simulation_paths :
          simfiles' = [f \in DOMAIN simfiles \ {StoredFile(i)} |-> simfiles[f]]
    /\ last' = Call("remove", 0, "none", 0)
    /\ UNCHANGED <<cwd, dirs, pickles, textfiles, stores, batch, held, iter,
                   inner, psim, parsed>>

NextDamaged ==
    \/ Build
    \/ Run
    \/ Aggregate
    \/ LoseSimulation

SpecDamaged == Init /\ [][NextDamaged]_vars

\* C19: an aggregate over a batch with a stored simulation that does not
\* load ends with the error of that load, and results and completed are
\* what they were before the call.
C19_LoadFailurePropagates ==
    [][(Aggregate /\ MissingSimulations # {})
          => /\ last'.err = "FileNotFoundError"
             /\ batch'.results = batch.results
             /\ batch'.completed = batch.completed]_vars

\* an aggregate failed on a lost simulation of a sweep that holds the rows
\* and the completed entries of an aggregate before the loss
C19_Witness ==
    /\ last.op = "aggregate" /\ last.err = "FileNotFoundError"
    /\ BatchBuilt
    /\ MissingSimulations # {}
    /\ batch.results.present
    /\ Len(batch.results.rows) >= 2
    /\ \E i \in MissingSimulations : batch.completed.values[i]

====
